---- MODULE Spec2Model ----
(***************************************************************************)
(* Model of sentiment.py: the SentimentAnalyzer class (constructor,        *)
(* classify_sentiment, analyze_text, analyze_file) and the CLI driver      *)
(* main().                                                                 *)
(*                                                                         *)
(* Floats are modelled in tenths: 1.0 is One, the default thresholds 0.1   *)
(* and -0.1 are DefaultPos and DefaultNeg.  NaN is a float that fails      *)
(* every comparison.  Python dicts are functions from keys to values.      *)
(* Python strings are sequences of tokens: the whitespace token WS or the  *)
(* number of a sentence of the corpus.                                     *)
(***************************************************************************)
EXTENDS Integers, Sequences, FiniteSets, TLC

\* ------------------------------------------------------------- bounds
\* Thresholds and polarities are enumerated in tenths within MaxAbs of 0.0,
\* plus the ends of the legal range and one step beyond them, plus NaN.
MaxAbs == 1
\* The longest text has MaxSentences sentences.
MaxSentences == 2

\* ------------------------------------------------------------- floats
One == 10
DefaultPos == 1
DefaultNeg == 0 - DefaultPos
NaN == One * One

\* a <= b on floats: false as soon as one side is NaN
Le(a, b) == a # NaN /\ b # NaN /\ a <= b

\* a >= b on floats
Ge(a, b) == Le(b, a)

Fractions == (0 - MaxAbs)..MaxAbs
InRange == Fractions \cup {0 - One, One}
Floats == InRange \cup {0 - (One + 1), One + 1, NaN}

\* ------------------------------------------------------------- dicts
EmptyDict == [k \in {} |-> 0]
Keys(d) == DOMAIN d
Put(d, k, v) == (k :> v) @@ d

\* ------------------------------------------------------------- exceptions
\* The classes the handlers of the program tell apart, each with its base.
Base(c) ==
    CASE c = "TranslatorError" -> "TextBlobException"
      [] c = "NotTranslated" -> "TextBlobException"
      [] c = "TextBlobException" -> "Exception"
      [] c = "FileNotFoundError" -> "OSError"
      [] c = "OSError" -> "Exception"
      [] c = "MemoryError" -> "Exception"
      [] c = "UnicodeDecodeError" -> "ValueError"
      [] c = "ValueError" -> "Exception"
      [] c = "TypeError" -> "Exception"
      [] c = "Exception" -> "BaseException"
      [] OTHER -> "object"

RECURSIVE IsInstance(_, _)
IsInstance(e, c) ==
    IF e = c THEN TRUE
    ELSE IF e = "object" THEN FALSE
    ELSE IsInstance(Base(e), c)

\* What a call into the NLP engine may raise.
EngineErrors == {"TextBlobException", "ValueError"}
\* What blob.detect_language() may raise.
DetectErrors == {"TranslatorError", "NotTranslated", "ValueError"}
\* What opening and reading the file may raise.
ReadErrors == {"FileNotFoundError", "OSError", "MemoryError", "UnicodeDecodeError"}

\* ------------------------------------------------------------- values
WS == 0
PyNone == [type |-> "NoneType", val |-> <<>>]
PyInt(n) == [type |-> "int", val |-> <<n>>]
PyStr(s) == [type |-> "str", val |-> s]

\* bool(v)
Truthy(v) ==
    CASE v.type = "NoneType" -> FALSE
      [] v.type = "int" -> v.val[1] # 0
      [] OTHER -> Len(v.val) > 0

IsStr(v) == v.type = "str"

RECURSIVE LStrip(_)
LStrip(s) == IF s # <<>> /\ Head(s) = WS THEN LStrip(Tail(s)) ELSE s

RECURSIVE RStrip(_)
RStrip(s) ==
    IF s # <<>> /\ s[Len(s)] = WS THEN RStrip(SubSeq(s, 1, Len(s) - 1)) ELSE s

\* A validation that forgets to strip the text.
StripNothing(s) == s

\* str.strip()
Strip(s) == RStrip(LStrip(s))

\* The text of the first n sentences of the corpus, separated by spaces.
RECURSIVE CorpusText(_)
CorpusText(n) ==
    IF n = 0 THEN <<>>
    ELSE IF n = 1 THEN <<1>>
    ELSE CorpusText(n - 1) \o <<WS, n>>

StrValues ==
    {<<>>, <<WS>>, <<WS, WS>>} \cup {CorpusText(n) : n \in 1..MaxSentences}
       \cup {<<WS, 1, WS>>}
Strings == {PyStr(s) : s \in StrValues}
NonStrings == {PyNone, PyInt(0), PyInt(5)}
TextValues == Strings \cup NonStrings
Bools == {TRUE, FALSE}
\* file paths: the empty string and the name of a file
Paths == {PyStr(<<>>), PyStr(<<1>>)}

\* ------------------------------------------------------------- the engine
\* The engine computes its scores from the text alone: the corpus fixes the
\* scores of its sentences.  Whether a request raises is not determined by
\* the text.
\* blob.sentences: the sentences of a text, in order
Sentences(s) == SelectSeq(s, LAMBDA t : t # WS)

\* sentence.sentiment.polarity: the engine's score of a sentence of the corpus
SentencePolarity(k) ==
    CASE k % 4 = 1 -> 6
      [] k % 4 = 2 -> 0 - 8
      [] k % 4 = 3 -> 0
      [] OTHER -> DefaultPos

\* sentence.sentiment.subjectivity
SentenceSubjectivity(k) == IF k % 2 = 1 THEN 6 ELSE 9

RECURSIVE SumPolarity(_)
SumPolarity(ss) ==
    IF ss = <<>> THEN 0 ELSE SentencePolarity(Head(ss)) + SumPolarity(Tail(ss))

\* blob.sentiment.polarity: the engine's score of the whole text
TextPolarity(s) ==
    LET ss == Sentences(s)
        sum == SumPolarity(ss)
    IN IF ss = <<>> THEN 0
       ELSE IF sum >= 0 THEN sum \div Len(ss) ELSE 0 - ((0 - sum) \div Len(ss))

\* blob.sentiment.subjectivity
TextSubjectivity(s) ==
    IF Sentences(s) = <<>> THEN 0 ELSE SentenceSubjectivity(Len(Sentences(s)))

\* len(blob.words)
WordCount(s) == 3 * Len(Sentences(s))

\* ------------------------------------------------------------- state
VARIABLES
    self,        \* the Analyzer: positive_threshold, negative_threshold
    init_args,   \* the pair __init__ was called with
    args,        \* main: the parsed command line
    op,          \* the outermost call: a method of the Analyzer, or main
    stack,       \* the active calls, innermost first
    pc,          \* the position in the innermost call
    polarity,    \* classify_sentiment: its argument
    frame,       \* analyze_text: its arguments
    file_frame,  \* analyze_file: its arguments
    i,           \* analyze_text: the number of the sentence the loop is at
    results,     \* analyze_text: the dict it builds
    text_ret,    \* what the last analyze_text call returned
    ret,         \* what the outermost Analyzer call returned
    raised,      \* the exception that left the Analyzer, "none" if none did
    log,         \* what happened during the outermost call: the requests made
                 \* of the engine, the steps that raised, the content read
    stdout,      \* main: what was printed to standard output
    stderr,      \* main: what was printed to the error stream
    exit_code    \* main: <<>> while running, <<code>> once exited

vars ==
    <<self, init_args, args, op, stack, pc, polarity, frame, file_frame, i, results,
      text_ret, ret, raised, log, stdout, stderr, exit_code>>

analyzer_vars == <<self, init_args, op>>
main_vars == <<args, stdout, stderr, exit_code>>

NoFlags ==
    [sentence_level |-> FALSE, include_noun_phrases |-> FALSE,
     detect_language |-> FALSE]
TextFrame(text, f) ==
    [text |-> text, sentence_level |-> f.sentence_level,
     include_noun_phrases |-> f.include_noun_phrases,
     detect_language |-> f.detect_language]
FileFrame(file_path, f) ==
    [file_path |-> file_path, sentence_level |-> f.sentence_level,
     include_noun_phrases |-> f.include_noun_phrases,
     detect_language |-> f.detect_language]
NoFrame == TextFrame(PyNone, NoFlags)
NoFileFrame == FileFrame(PyStr(<<>>), NoFlags)
NoLog ==
    [blob |-> 0, detect |-> 0, analyze_text |-> 0, analyze_file |-> 0,
     failed |-> {}, failed_sentences |-> {}, read |-> PyNone]
\* the log once the step `label` has raised
Failed(l, label) == [l EXCEPT !.failed = @ \cup {label}]
NoArgs ==
    [text |-> PyNone, file |-> PyNone, sentence_level |-> FALSE,
     noun_phrases |-> FALSE, detect_lang |-> FALSE, json |-> FALSE,
     pos_threshold |-> DefaultPos, neg_threshold |-> DefaultNeg]
FlagSets ==
    [sentence_level : Bools, include_noun_phrases : Bools, detect_language : Bools]

\* ------------------------------------------------------------- Analyzer
\* A constructor that resets only the threshold that is out of range.
NewAnalyzerPartial(positive_threshold, negative_threshold) ==
    IF ~(Le(0 - One, negative_threshold)
         /\ Le(negative_threshold, positive_threshold)
         /\ Le(positive_threshold, One))
    THEN [positive_threshold |->
             IF Le(0 - One, positive_threshold) /\ Le(positive_threshold, One)
             THEN positive_threshold ELSE DefaultPos,
          negative_threshold |->
             IF Le(0 - One, negative_threshold) /\ Le(negative_threshold, One)
             THEN negative_threshold ELSE DefaultNeg]
    ELSE [positive_threshold |-> positive_threshold,
          negative_threshold |-> negative_threshold]

\* SentimentAnalyzer.__init__
NewAnalyzer(positive_threshold, negative_threshold) ==
    IF ~(Le(0 - One, negative_threshold)
         /\ Le(negative_threshold, positive_threshold)
         /\ Le(positive_threshold, One))
    THEN [positive_threshold |-> DefaultPos, negative_threshold |-> DefaultNeg]
    ELSE [positive_threshold |-> positive_threshold,
          negative_threshold |-> negative_threshold]

\* A classification whose Negative test is strict.
ClassifyStrictNegative(a, p) ==
    IF Ge(p, a.positive_threshold) THEN "Positive"
    ELSE IF Le(p, a.negative_threshold) /\ p # a.negative_threshold THEN "Negative"
    ELSE "Neutral"

\* A classification whose Positive test is strict.
ClassifyStrictPositive(a, p) ==
    IF Ge(p, a.positive_threshold) /\ p # a.positive_threshold THEN "Positive"
    ELSE IF Le(p, a.negative_threshold) THEN "Negative"
    ELSE "Neutral"

\* SentimentAnalyzer.classify_sentiment
Classify(a, p) ==
    IF Ge(p, a.positive_threshold) THEN "Positive"
    ELSE IF Le(p, a.negative_threshold) THEN "Negative"
    ELSE "Neutral"

\* the `overall` block, and the scores of a sentence entry
Scores(a, p, s) ==
    [polarity |-> p, subjectivity |-> s, classification |-> Classify(a, p)]

\* ------------------------------------------------------------- analyze_text
Caller == Head(Tail(stack))

\* where a call that returns to the frame `to` continues
ReturnPc(to) ==
    CASE to = "analyze_file" -> "file_return"
      [] to = "main" -> "main_present"
      [] OTHER -> "returned"

\* `return value` in analyze_text
TextReturn(value) ==
    /\ text_ret' = value
    /\ stack' = Tail(stack)
    /\ pc' = ReturnPc(Caller)
    /\ ret' = IF Caller = "analyze_file" THEN ret ELSE value
    /\ raised' = raised

\* An analyze_text that catches only the engine's own exceptions.
TextHandlerNarrow(e) ==
    IF IsInstance(e, "TextBlobException")
    THEN [caught |-> TRUE, value |-> ("error" :> <<"textblob_issue", e>>)]
    ELSE [caught |-> FALSE, value |-> EmptyDict]

\* the except clauses of analyze_text (lines 166-173)
TextHandler(e) ==
    IF IsInstance(e, "TextBlobException")
    THEN [caught |-> TRUE, value |-> ("error" :> <<"textblob_issue", e>>)]
    ELSE IF IsInstance(e, "Exception")
    THEN [caught |-> TRUE, value |-> ("error" :> <<"critical_error", e>>)]
    ELSE [caught |-> FALSE, value |-> EmptyDict]

\* the except clauses of analyze_file (lines 200-215)
FileHandler(e, file_path) ==
    IF IsInstance(e, "FileNotFoundError")
    THEN [caught |-> TRUE, value |-> ("error" :> <<"file_not_found", file_path>>)]
    ELSE IF IsInstance(e, "OSError")
    THEN [caught |-> TRUE, value |-> ("error" :> <<"error_reading", file_path, e>>)]
    ELSE IF IsInstance(e, "MemoryError")
    THEN [caught |-> TRUE, value |-> ("error" :> <<"memory_error", file_path>>)]
    ELSE IF IsInstance(e, "Exception")
    THEN [caught |-> TRUE, value |-> ("error" :> <<"unexpected_error", file_path, e>>)]
    ELSE [caught |-> FALSE, value |-> EmptyDict]

\* an exception e leaves the frame on top of the stack uncaught
Escape(e) ==
    /\ raised' = e
    /\ stack' = <<stack[Len(stack)]>>
    /\ pc' = IF stack[Len(stack)] = "main" THEN "main_traceback" ELSE "raised"
    /\ UNCHANGED <<text_ret, ret>>

\* an exception e raised inside the try block of analyze_text
TextExcept(e) ==
    LET h == TextHandler(e)
        fh == FileHandler(e, file_frame.file_path)
    IN IF h.caught THEN TextReturn(h.value)
       ELSE IF Caller = "analyze_file" /\ fh.caught
       THEN /\ ret' = fh.value
            /\ stack' = Tail(Tail(stack))
            /\ pc' = ReturnPc(Head(Tail(Tail(stack))))
            /\ UNCHANGED <<text_ret, raised>>
       ELSE Escape(e)

InText(label) == Head(stack) = "analyze_text" /\ pc = label

\* lines 79-85: the input validation
TextValidate ==
    /\ InText("text_entry")
    /\ IF ~Truthy(frame.text) \/ ~IsStr(frame.text)
          \/ ~Truthy(PyStr(Strip(frame.text.val)))
       THEN TextReturn("error" :> <<"devoid_of_content">>)
       ELSE /\ pc' = "blob"
            /\ UNCHANGED <<stack, text_ret, ret, raised>>
    /\ UNCHANGED <<analyzer_vars, main_vars, polarity, frame, file_frame, i,
                   results, log>>

\* lines 88-89: blob = TextBlob(text); results = {"analysis_timestamp": ...}
TextBlobNew ==
    /\ InText("blob")
    /\ \E o \in {"ok"} \cup EngineErrors :
          IF o = "ok"
          THEN /\ results' = ("analysis_timestamp" :> <<"time">>)
               /\ pc' = IF frame.sentence_level THEN "sentences" ELSE "overall"
               /\ log' = [log EXCEPT !.blob = @ + 1]
               /\ UNCHANGED <<stack, text_ret, ret, raised>>
          ELSE /\ TextExcept(o)
               /\ log' = Failed([log EXCEPT !.blob = @ + 1], "blob")
               /\ UNCHANGED results
    /\ UNCHANGED <<analyzer_vars, main_vars, polarity, frame, file_frame, i>>

\* lines 93-95: results['sentences'] = []; the loop asks for blob.sentences
TextSentences ==
    /\ InText("sentences")
    /\ \E o \in {"ok"} \cup EngineErrors :
          IF o = "ok"
          THEN /\ results' = Put(results, "sentences", <<>>)
               /\ i' = 1
               /\ pc' = IF Sentences(frame.text.val) = <<>> THEN "overall" ELSE "loop"
               /\ UNCHANGED <<stack, text_ret, ret, raised, log>>
          ELSE /\ TextExcept(o)
               /\ log' = Failed(log, "sentences")
               /\ UNCHANGED <<results, i>>
    /\ UNCHANGED <<analyzer_vars, main_vars, polarity, frame, file_frame>>

\* lines 98-103: the entry of a sentence whose sentiment was computed
SentenceData(a, k) ==
    [text |-> <<k>>, polarity |-> SentencePolarity(k),
     subjectivity |-> SentenceSubjectivity(k),
     classification |-> Classify(a, SentencePolarity(k))]

\* line 109: the entry of a sentence whose sentiment computation raised e
SentenceError(k, e) == [text |-> <<k>>, error |-> e]

\* A loop without its own try: a failing sentence aborts the call.
TextSentenceNoTry ==
    /\ InText("loop")
    /\ LET ss == Sentences(frame.text.val)
           k == ss[i]
       IN \E o \in {"ok"} \cup EngineErrors :
             IF o = "ok"
             THEN /\ results' =
                       Put(results, "sentences",
                           Append(results["sentences"], SentenceData(self, k)))
                  /\ log' = log
                  /\ i' = i + 1
                  /\ pc' = IF i = Len(ss) THEN "overall" ELSE "loop"
                  /\ UNCHANGED <<stack, text_ret, ret, raised>>
             ELSE /\ TextExcept(o)
                  /\ log' = [Failed(log, "loop") EXCEPT
                                !.failed_sentences = @ \cup {i}]
                  /\ UNCHANGED <<results, i>>
    /\ UNCHANGED <<analyzer_vars, main_vars, polarity, frame, file_frame>>

\* lines 95-109: one iteration of the loop over blob.sentences
TextSentence ==
    /\ InText("loop")
    /\ LET ss == Sentences(frame.text.val)
           k == ss[i]
       IN /\ \E o \in {"ok"} \cup EngineErrors :
                IF o = "ok"
                THEN /\ results' =
                          Put(results, "sentences",
                              Append(results["sentences"], SentenceData(self, k)))
                     /\ log' = log
                ELSE /\ results' =
                          Put(results, "sentences",
                              Append(results["sentences"], SentenceError(k, o)))
                     /\ log' = [Failed(log, "loop") EXCEPT
                                   !.failed_sentences = @ \cup {i}]
          /\ i' = i + 1
          /\ pc' = IF i = Len(ss) THEN "overall" ELSE "loop"
    /\ UNCHANGED <<analyzer_vars, main_vars, stack, polarity, frame, file_frame,
                   text_ret, ret, raised>>

\* lines 112-117 and 121-126: the overall sentiment
TextOverall ==
    /\ InText("overall")
    /\ \E o \in {"ok"} \cup EngineErrors :
          IF o = "ok"
          THEN /\ results' =
                    Put(results, "overall",
                        Scores(self, TextPolarity(frame.text.val),
                               TextSubjectivity(frame.text.val)))
               /\ pc' = "text_stats"
               /\ UNCHANGED <<stack, text_ret, ret, raised, log>>
          ELSE /\ TextExcept(o)
               /\ log' = Failed(log, "overall")
               /\ UNCHANGED results
    /\ UNCHANGED <<analyzer_vars, main_vars, polarity, frame, file_frame, i>>

\* where analyze_text continues after the step `label`
AfterStep(label) ==
    IF label = "text_stats" /\ frame.include_noun_phrases THEN "noun_phrases"
    ELSE IF label \in {"text_stats", "noun_phrases"} /\ frame.detect_language
    THEN "detect_language"
    ELSE "finish"

\* lines 130-133: word and sentence counts
TextStats ==
    /\ InText("text_stats")
    /\ \E o \in {"ok"} \cup EngineErrors :
          IF o = "ok"
          THEN /\ results' =
                    Put(results, "text_stats",
                        [word_count |-> WordCount(frame.text.val),
                         sentence_count |-> Len(Sentences(frame.text.val))])
               /\ pc' = AfterStep("text_stats")
               /\ UNCHANGED <<stack, text_ret, ret, raised, log>>
          ELSE /\ TextExcept(o)
               /\ log' = Failed(log, "text_stats")
               /\ UNCHANGED results
    /\ UNCHANGED <<analyzer_vars, main_vars, polarity, frame, file_frame, i>>

\* lines 138-142: noun phrases
TextNounPhrases ==
    /\ InText("noun_phrases")
    /\ \E o \in {"ok"} \cup EngineErrors :
          IF o = "ok"
          THEN /\ results' = Put(results, "noun_phrases", Sentences(frame.text.val))
               /\ pc' = AfterStep("noun_phrases")
               /\ UNCHANGED <<stack, text_ret, ret, raised, log>>
          ELSE /\ TextExcept(o)
               /\ log' = Failed(log, "noun_phrases")
               /\ UNCHANGED results
    /\ UNCHANGED <<analyzer_vars, main_vars, polarity, frame, file_frame, i>>

\* A language detection that recovers from the recognized failures only.
TextDetectLanguageRecognized ==
    /\ InText("detect_language")
    /\ \E o \in {"ok"} \cup DetectErrors :
          IF o = "ok"
          THEN /\ results' = Put(results, "detected_language", <<"en">>)
               /\ pc' = "finish"
               /\ log' = [log EXCEPT !.detect = @ + 1]
               /\ UNCHANGED <<stack, text_ret, ret, raised>>
          ELSE /\ log' = Failed([log EXCEPT !.detect = @ + 1], "detect_language")
               /\ IF IsInstance(o, "TranslatorError") \/ IsInstance(o, "NotTranslated")
                  THEN /\ results' = Put(results, "detected_language_error", <<o>>)
                       /\ pc' = "finish"
                       /\ UNCHANGED <<stack, text_ret, ret, raised>>
                  ELSE TextExcept(o) /\ UNCHANGED results
    /\ UNCHANGED <<analyzer_vars, main_vars, polarity, frame, file_frame, i>>

\* lines 144-157: language detection
TextDetectLanguage ==
    /\ InText("detect_language")
    /\ \E o \in {"ok"} \cup DetectErrors :
          IF o = "ok"
          THEN /\ results' = Put(results, "detected_language", <<"en">>)
               /\ pc' = "finish"
               /\ log' = [log EXCEPT !.detect = @ + 1]
               /\ UNCHANGED <<stack, text_ret, ret, raised>>
          ELSE /\ log' = Failed([log EXCEPT !.detect = @ + 1], "detect_language")
               /\ IF IsInstance(o, "TranslatorError") \/ IsInstance(o, "NotTranslated")
                     \/ IsInstance(o, "Exception")
                  THEN /\ results' = Put(results, "detected_language_error", <<o>>)
                       /\ pc' = "finish"
                       /\ UNCHANGED <<stack, text_ret, ret, raised>>
                  ELSE TextExcept(o) /\ UNCHANGED results
    /\ UNCHANGED <<analyzer_vars, main_vars, polarity, frame, file_frame, i>>

\* lines 160-164: the processing time, and the return of the dict
TextFinish ==
    /\ InText("finish")
    /\ results' = Put(results, "processing_time_seconds", <<"elapsed">>)
    /\ TextReturn(results')
    /\ UNCHANGED <<analyzer_vars, main_vars, polarity, frame, file_frame, i, log>>

AnalyzeTextStep ==
    \/ TextValidate
    \/ TextBlobNew
    \/ TextSentences
    \/ TextSentence
    \/ TextOverall
    \/ TextStats
    \/ TextNounPhrases
    \/ TextDetectLanguage
    \/ TextFinish

\* ------------------------------------------------------------- analyze_file
\* what open() and read() do: raise, or give the content of the file
ReadOutcomes(file_path) ==
    IF file_path.val = <<>> THEN {[error |-> "FileNotFoundError", text |-> PyNone]}
    ELSE {[error |-> e, text |-> PyNone] : e \in ReadErrors}
            \cup {[error |-> "none", text |-> t] : t \in Strings}

\* A delegation that forgets to forward detect_language.
FileDelegateDropsFlag(text) ==
    TextFrame(text,
              [sentence_level |-> file_frame.sentence_level,
               include_noun_phrases |-> file_frame.include_noun_phrases,
               detect_language |-> FALSE])

\* lines 196-199: the call of analyze_text from analyze_file
FileDelegate(text) ==
    TextFrame(text,
              [sentence_level |-> file_frame.sentence_level,
               include_noun_phrases |-> file_frame.include_noun_phrases,
               detect_language |-> file_frame.detect_language])

\* lines 188-215: open and read the file, then delegate or report the failure
FileRead ==
    /\ Head(stack) = "analyze_file" /\ pc = "file_read"
    /\ \E o \in ReadOutcomes(file_frame.file_path) :
          IF o.error = "none"
          THEN /\ frame' = FileDelegate(o.text)
               /\ stack' = <<"analyze_text">> \o stack
               /\ pc' = "text_entry"
               /\ log' = [log EXCEPT !.analyze_text = @ + 1, !.read = o.text]
               /\ UNCHANGED <<ret, raised>>
          ELSE LET h == FileHandler(o.error, file_frame.file_path)
               IN /\ IF h.caught
                     THEN /\ ret' = h.value
                          /\ stack' = Tail(stack)
                          /\ pc' = ReturnPc(Caller)
                          /\ raised' = raised
                     ELSE /\ raised' = o.error
                          /\ stack' = <<stack[Len(stack)]>>
                          /\ pc' = IF stack[Len(stack)] = "main"
                                    THEN "main_traceback" ELSE "raised"
                          /\ ret' = ret
                  /\ log' = Failed(log, "file_read")
                  /\ frame' = frame
    /\ UNCHANGED <<analyzer_vars, main_vars, polarity, file_frame, i, results,
                   text_ret>>

\* line 196: `return self.analyze_text(...)`
FileReturn ==
    /\ Head(stack) = "analyze_file" /\ pc = "file_return"
    /\ ret' = text_ret
    /\ stack' = Tail(stack)
    /\ pc' = ReturnPc(Caller)
    /\ UNCHANGED <<analyzer_vars, main_vars, polarity, frame, file_frame, i,
                   results, text_ret, raised, log>>

AnalyzeFileStep == FileRead \/ FileReturn

\* ------------------------------------------------------------- callers
\* A program that holds an Analyzer calls one of its methods ...
CallClassify ==
    /\ stack = <<"caller">> /\ pc = "idle"
    /\ \E p \in Floats :
          /\ polarity' = p
          /\ ret' = Classify(self, p)
    /\ op' = "classify_sentiment"
    /\ pc' = "returned"
    /\ UNCHANGED <<self, init_args, main_vars, stack, frame, file_frame, i, results,
                   text_ret, raised, log>>

CallAnalyzeText ==
    /\ stack = <<"caller">> /\ pc = "idle"
    /\ \E t \in TextValues, f \in FlagSets : frame' = TextFrame(t, f)
    /\ stack' = <<"analyze_text">> \o stack
    /\ pc' = "text_entry"
    /\ op' = "analyze_text"
    /\ log' = [log EXCEPT !.analyze_text = @ + 1]
    /\ UNCHANGED <<self, init_args, main_vars, polarity, file_frame, i, results,
                   text_ret, ret, raised>>

CallAnalyzeFile ==
    /\ stack = <<"caller">> /\ pc = "idle"
    /\ \E path \in Paths, f \in FlagSets : file_frame' = FileFrame(path, f)
    /\ stack' = <<"analyze_file">> \o stack
    /\ op' = "analyze_file"
    /\ pc' = "file_read"
    /\ log' = [log EXCEPT !.analyze_file = @ + 1]
    /\ UNCHANGED <<self, init_args, main_vars, polarity, frame, i, results,
                   text_ret, ret, raised>>

\* ... and drops the result before the next call.
Release ==
    /\ stack = <<"caller">> /\ pc = "returned"
    /\ pc' = "idle"
    /\ op' = "none"
    /\ polarity' = 0
    /\ frame' = NoFrame
    /\ file_frame' = NoFileFrame
    /\ i' = 0
    /\ results' = EmptyDict
    /\ text_ret' = PyNone
    /\ ret' = PyNone
    /\ log' = NoLog
    /\ UNCHANGED <<self, init_args, main_vars, stack, raised>>

InitCall ==
    /\ polarity = 0
    /\ frame = NoFrame
    /\ file_frame = NoFileFrame
    /\ i = 0
    /\ results = EmptyDict
    /\ text_ret = PyNone
    /\ ret = PyNone
    /\ raised = "none"
    /\ log = NoLog
    /\ stdout = <<>>
    /\ stderr = <<>>
    /\ exit_code = <<>>

\* An Analyzer constructed with any pair of thresholds, and no call made yet.
Init ==
    /\ \E p \in Floats, n \in Floats :
          /\ init_args = [positive_threshold |-> p, negative_threshold |-> n]
          /\ self = NewAnalyzer(p, n)
    /\ args = NoArgs
    /\ op = "none"
    /\ stack = <<"caller">>
    /\ pc = "idle"
    /\ InitCall

Next ==
    \/ CallClassify
    \/ CallAnalyzeText
    \/ CallAnalyzeFile
    \/ AnalyzeTextStep
    \/ AnalyzeFileStep
    \/ Release

Spec == Init /\ [][Next]_vars

\* ------------------------------------------------------------- main
\* What argparse accepts: exactly one of --text and --file, any flags, any
\* pair of floats as thresholds.
Flags == [sentence_level : Bools, noun_phrases : Bools, detect_lang : Bools,
          json : Bools, pos_threshold : Floats, neg_threshold : Floats]
Args(text, file, f) ==
    [text |-> text, file |-> file, sentence_level |-> f.sentence_level,
     noun_phrases |-> f.noun_phrases, detect_lang |-> f.detect_lang,
     json |-> f.json, pos_threshold |-> f.pos_threshold,
     neg_threshold |-> f.neg_threshold]
ArgSets ==
    {Args(t, PyNone, f) : t \in Strings, f \in Flags}
       \cup {Args(PyNone, path, f) : path \in Paths, f \in Flags}

\* lines 309-314 and 317-322: the flags main passes on
PassedFlags ==
    [sentence_level |-> args.sentence_level,
     include_noun_phrases |-> args.noun_phrases,
     detect_language |-> args.detect_lang]

InMain(label) == stack = <<"main">> /\ pc = label

\* lines 299-302: analyzer = SentimentAnalyzer(...)
MainConstruct ==
    /\ InMain("main_start")
    /\ init_args' = [positive_threshold |-> args.pos_threshold,
                     negative_threshold |-> args.neg_threshold]
    /\ self' = NewAnalyzer(args.pos_threshold, args.neg_threshold)
    /\ pc' = "main_dispatch"
    /\ UNCHANGED <<main_vars, op, stack, polarity, frame, file_frame, i, results,
                   text_ret, ret, raised, log>>

\* lines 305-322: results = None, then the analysis of the text or of the file
MainDispatch ==
    /\ InMain("main_dispatch")
    /\ IF Truthy(args.text)
       THEN /\ frame' = TextFrame(args.text, PassedFlags)
            /\ stack' = <<"analyze_text">> \o stack
            /\ pc' = "text_entry"
            /\ log' = [log EXCEPT !.analyze_text = @ + 1]
            /\ UNCHANGED file_frame
       ELSE IF Truthy(args.file)
       THEN /\ file_frame' = FileFrame(args.file, PassedFlags)
            /\ stack' = <<"analyze_file">> \o stack
            /\ pc' = "file_read"
            /\ log' = [log EXCEPT !.analyze_file = @ + 1]
            /\ UNCHANGED frame
       ELSE /\ pc' = "main_present"
            /\ UNCHANGED <<frame, file_frame, stack, log>>
    /\ ret' = PyNone
    /\ UNCHANGED <<analyzer_vars, main_vars, polarity, i, results, text_ret, raised>>

\* lines 325-328: no results
MainNoResults ==
    /\ InMain("main_present")
    /\ ret = PyNone
    /\ stderr' = Append(stderr, <<"CRITICAL", "Analysis did not produce results">>)
    /\ exit_code' = <<1>>
    /\ pc' = "exited"
    /\ UNCHANGED <<analyzer_vars, args, stdout, stack, polarity, frame, file_frame, i,
                   results, text_ret, ret, raised, log>>

\* lines 331-335: the result carries an error
MainError ==
    /\ InMain("main_present")
    /\ ret # PyNone
    /\ "error" \in Keys(ret)
    /\ stderr' = Append(stderr, <<"Operation failed", ret["error"]>>)
    /\ exit_code' = <<1>>
    /\ pc' = "exited"
    /\ UNCHANGED <<analyzer_vars, args, stdout, stack, polarity, frame, file_frame, i,
                   results, text_ret, ret, raised, log>>

\* lines 337-345: JSON output; json.dumps may raise TypeError
MainJson ==
    /\ InMain("main_present")
    /\ ret # PyNone
    /\ "error" \notin Keys(ret)
    /\ args.json
    /\ \E o \in {"ok", "TypeError"} :
          IF o = "ok"
          THEN /\ stdout' = Append(stdout, <<"json", ret>>)
               /\ exit_code' = <<0>>
               /\ UNCHANGED stderr
          ELSE /\ stderr' = Append(stderr, <<"Output Error", o>>)
               /\ exit_code' = <<1>>
               /\ UNCHANGED stdout
    /\ pc' = "exited"
    /\ UNCHANGED <<analyzer_vars, args, stack, polarity, frame, file_frame, i,
                   results, text_ret, ret, raised, log>>

\* s[:n]
Take(s, n) == SubSeq(s, 1, IF Len(s) < n THEN Len(s) ELSE n)

\* lines 382-392: the lines of the report for one sentence entry
SentenceLines(n, entry) ==
    IF "error" \in DOMAIN entry
    THEN <<"sentence_failed", n, entry.error>>
    ELSE <<"sentence", n,
           IF Len(entry.text) < 80 THEN entry.text
           ELSE Take(entry.text, 77) \o <<"...">>,
           entry.polarity, entry.subjectivity, entry.classification>>

\* lines 349-404: the report in plain text, section by section
TextReport(r, a) ==
    <<<<"header">>>>
    \o (IF "overall" \in Keys(r)
        THEN <<<<"overall", r["overall"].polarity, r["overall"].subjectivity,
                 r["overall"].classification>>>>
        ELSE <<>>)
    \o (IF "text_stats" \in Keys(r)
        THEN <<<<"text_stats", r["text_stats"].word_count,
                 r["text_stats"].sentence_count>>>>
        ELSE <<>>)
    \o (IF "detected_language" \in Keys(r)
        THEN <<<<"detected_language", r["detected_language"]>>>>
        ELSE IF "detected_language_error" \in Keys(r)
        THEN <<<<"language_detection_failed", r["detected_language_error"]>>>>
        ELSE <<>>)
    \o (IF "noun_phrases" \in Keys(r) /\ r["noun_phrases"] # <<>>
        THEN <<<<"noun_phrases", Take(r["noun_phrases"], 10),
                 Len(r["noun_phrases"]) > 10>>>>
        ELSE <<>>)
    \o (IF "sentences" \in Keys(r)
        THEN <<<<"sentence_level">>>>
             \o [n \in 1..Len(r["sentences"]) |-> SentenceLines(n, r["sentences"][n])]
        ELSE <<>>)
    \o (IF "processing_time_seconds" \in Keys(r)
        THEN <<<<"processing_time", r["processing_time_seconds"]>>>>
        ELSE <<>>)
    \o <<<<"legend", a.pos_threshold, a.neg_threshold>>>>

\* lines 346-404: plain text output
MainText ==
    /\ InMain("main_present")
    /\ ret # PyNone
    /\ "error" \notin Keys(ret)
    /\ ~args.json
    /\ stdout' = stdout \o TextReport(ret, args)
    /\ exit_code' = <<0>>
    /\ pc' = "exited"
    /\ UNCHANGED <<analyzer_vars, args, stderr, stack, polarity, frame, file_frame, i,
                   results, text_ret, ret, raised, log>>

\* The analyzer main has not constructed yet.
NoAnalyzer == [positive_threshold |-> NaN, negative_threshold |-> NaN]

\* main after parse_args: any command line argparse accepts.
InitCLI ==
    /\ args \in ArgSets
    /\ self = NoAnalyzer
    /\ init_args = NoAnalyzer
    /\ op = "main"
    /\ stack = <<"main">>
    /\ pc = "main_start"
    /\ InitCall

NextCLI ==
    \/ MainConstruct
    \/ MainDispatch
    \/ AnalyzeTextStep
    \/ AnalyzeFileStep
    \/ MainNoResults
    \/ MainError
    \/ MainJson
    \/ MainText

SpecCLI == InitCLI /\ [][NextCLI]_vars

\* ------------------------------------------------------------- claims
HasError(r) == "error" \in Keys(r)
Succeeded(r) == ~HasError(r)

\* analyze_text or analyze_file has returned to the program that called it
AnalysisReturned ==
    stack = <<"caller">> /\ pc = "returned" /\ op \in {"analyze_text", "analyze_file"}

\* classify_sentiment has returned
ClassifyReturned == pc = "returned" /\ op = "classify_sentiment"

\* the call of analyze_text made during the outermost call has returned
TextReturned == log.analyze_text = 1 /\ text_ret # PyNone

\* the text is no string, or has nothing but whitespace in it
Blank(v) == ~IsStr(v) \/ \A j \in 1..Len(v.val) : v.val[j] = WS

FullEntry == {"text", "polarity", "subjectivity", "classification"}
FailedEntry == {"text", "error"}
EngineSteps == {"blob", "sentences", "overall", "text_stats", "noun_phrases"}

\* C1: analyze_text and analyze_file never raise, whatever the input, the flags
\* and the step at which the engine fails (such a failure is returned as
\* `error`); a returned result that has the key `error` has no other key, and
\* `processing_time_seconds` is present exactly on the results without `error`.
C1_NoFailureEscapes ==
    /\ raised = "none"
    /\ pc # "raised"
    /\ AnalysisReturned =>
          /\ ret # PyNone
          /\ HasError(ret) => Keys(ret) = {"error"}
          /\ ("processing_time_seconds" \in Keys(ret)) <=> Succeeded(ret)
          /\ log.failed \cap (EngineSteps \cup {"file_read"}) # {} => HasError(ret)

\* C1: the engine raised at noun-phrase extraction, after `overall` and
\* `text_stats` were built, and the call returned a result with `error` alone.
C1_Witness ==
    /\ AnalysisReturned
    /\ op = "analyze_text"
    /\ log.failed = {"noun_phrases"}
    /\ {"overall", "text_stats"} \subseteq Keys(results)
    /\ Keys(ret) = {"error"}
    /\ ret["error"] = <<"critical_error", "ValueError">>

\* C2: in sentence-level mode, when only sentence computations fail, the call
\* succeeds with one entry per sentence in order, as many as
\* text_stats.sentence_count; a failing sentence's entry has text and error, any
\* other entry text and scores; `overall` is present.
C2_SentenceFailuresRecovered ==
    (TextReturned /\ frame.sentence_level /\ ~Blank(frame.text)
       /\ log.failed \subseteq {"loop"}) =>
       LET r == text_ret
           ss == Sentences(frame.text.val)
       IN /\ Succeeded(r)
          /\ {"sentences", "overall", "text_stats"} \subseteq Keys(r)
          /\ Len(r["sentences"]) = Len(ss)
          /\ Len(r["sentences"]) = r["text_stats"].sentence_count
          /\ \A j \in 1..Len(ss) :
                /\ r["sentences"][j].text = <<ss[j]>>
                /\ DOMAIN r["sentences"][j] =
                      IF j \in log.failed_sentences THEN FailedEntry ELSE FullEntry

\* C2: the first of two sentences failed, the second was still analysed.
C2_Witness ==
    /\ TextReturned
    /\ pc = "returned"
    /\ frame.sentence_level
    /\ Len(Sentences(frame.text.val)) = 2
    /\ log.failed = {"loop"}
    /\ log.failed_sentences = {1}
    /\ Succeeded(text_ret)
    /\ DOMAIN text_ret["sentences"][2] = FullEntry

C4_PositiveAndNeutral ==
    ClassifyReturned =>
       /\ ret \in {"Positive", "Negative", "Neutral"}
       /\ Ge(polarity, self.positive_threshold) => ret = "Positive"
       /\ (polarity # NaN /\ self.negative_threshold < polarity
             /\ polarity < self.positive_threshold) => ret = "Neutral"

\* C4: equal thresholds, and a polarity equal to both.
C4_Witness ==
    /\ ClassifyReturned
    /\ polarity = self.positive_threshold
    /\ polarity = self.negative_threshold
    /\ ret = "Positive"

\* the supplied pair satisfies -1.0 <= negative <= positive <= 1.0
Acceptable(a) ==
    /\ a.positive_threshold # NaN
    /\ a.negative_threshold # NaN
    /\ 0 - One <= a.negative_threshold
    /\ a.negative_threshold <= a.positive_threshold
    /\ a.positive_threshold <= One

\* C5: after construction and after any later operation the thresholds satisfy
\* -1.0 <= negative <= positive <= 1.0; they are the supplied pair when that
\* pair satisfies the condition and (0.1, -0.1) otherwise.
C5_Thresholds ==
    /\ Acceptable(self)
    /\ Acceptable(init_args) => self = init_args
    /\ ~Acceptable(init_args) =>
          self = [positive_threshold |-> DefaultPos, negative_threshold |-> DefaultNeg]

\* C5: only the positive threshold supplied was out of range, both were reset,
\* and an analysis has run since.
C5_Witness ==
    /\ AnalysisReturned
    /\ TextReturned
    /\ init_args = [positive_threshold |-> One + 1, negative_threshold |-> 0]
    /\ self = [positive_threshold |-> DefaultPos, negative_threshold |-> DefaultNeg]

\* C6: analyze_text on a text that is empty, whitespace-only, None or no string
\* returns a result whose only key is `error`, whatever the flags, and asks
\* nothing of the engine.
C6_BlankInput ==
    (op = "analyze_text" /\ Blank(frame.text)) =>
       /\ log.blob = 0
       /\ log.detect = 0
       /\ pc \in {"text_entry", "returned"}
       /\ pc = "returned" => Keys(ret) = {"error"}

\* C6: a whitespace-only text with every flag set.
C6_Witness ==
    /\ op = "analyze_text"
    /\ pc = "returned"
    /\ frame = TextFrame(PyStr(<<WS, WS>>),
                         [sentence_level |-> TRUE, include_noun_phrases |-> TRUE,
                          detect_language |-> TRUE])
    /\ Keys(ret) = {"error"}

\* C7: analyze_file whose read fails returns an `error` alone that names the
\* path, without calling analyze_text or the engine; when the read succeeds it
\* returns what analyze_text returned for the content and the same three
\* flags, an `error` result included when the content is blank.
C7_FileDelegates ==
    (op = "analyze_file" /\ pc = "returned") =>
       IF "file_read" \in log.failed
       THEN /\ Keys(ret) = {"error"}
            /\ ret["error"][2] = file_frame.file_path
            /\ log.analyze_text = 0
            /\ log.blob = 0
            /\ log.detect = 0
            /\ text_ret = PyNone
       ELSE /\ log.analyze_text = 1
            /\ ret = text_ret
            /\ frame.text = log.read
            /\ frame.sentence_level = file_frame.sentence_level
            /\ frame.include_noun_phrases = file_frame.include_noun_phrases
            /\ frame.detect_language = file_frame.detect_language
            /\ Blank(log.read) => Keys(ret) = {"error"}

\* C7: a file that was read and analysed with every flag set.
C7_Witness ==
    /\ op = "analyze_file"
    /\ pc = "returned"
    /\ file_frame.sentence_level
    /\ file_frame.include_noun_phrases
    /\ file_frame.detect_language
    /\ {"sentences", "noun_phrases", "detected_language"} \subseteq Keys(ret)

\* json.dumps raised
SerializationFailed ==
    \E j \in 1..Len(stderr) : stderr[j][1] = "Output Error"

\* C8 as stated: a run exits with 1 if the result carries `error` or its
\* serialization fails and with 0 otherwise; with `error` the message goes to
\* the error stream and nothing to standard output.
C8_ExitCodes ==
    exit_code # <<>> =>
       /\ exit_code \in {<<0>>, <<1>>}
       /\ exit_code = <<1>> <=> ((ret # PyNone /\ HasError(ret)) \/ SerializationFailed)
       /\ (ret # PyNone /\ HasError(ret)) =>
             /\ stderr = <<<<"Operation failed", ret["error"]>>>>
             /\ stdout = <<>>

\* C9 as stated: the thresholds of the legend of a text report are the
\* thresholds of the Analyzer that classified.
C9_LegendShowsActive ==
    (pc = "exited" /\ exit_code = <<0>> /\ ~args.json) =>
       LET legend == stdout[Len(stdout)]
       IN /\ legend[1] = "legend"
          /\ legend[2] = self.positive_threshold
          /\ legend[3] = self.negative_threshold

LanguageKeys == {"detected_language", "detected_language_error"}

\* C10: language detection is requested at most once per call and only when
\* detect_language is set; its failure, recognized or not, leaves the call
\* successful with overall, text_stats and processing_time_seconds; a result
\* never has both language keys, a successful one has exactly one of them
\* when detect_language is set, and none when it is not.
C10_LanguageDetection ==
    /\ log.detect <= 1
    /\ log.detect = 1 => frame.detect_language
    /\ TextReturned =>
          LET r == text_ret
          IN /\ ~(LanguageKeys \subseteq Keys(r))
             /\ "detect_language" \in log.failed =>
                   /\ Succeeded(r)
                   /\ {"overall", "text_stats", "processing_time_seconds"}
                         \subseteq Keys(r)
                   /\ "detected_language_error" \in Keys(r)
             /\ (Succeeded(r) /\ frame.detect_language) =>
                   Cardinality(LanguageKeys \cap Keys(r)) = 1
             /\ ~frame.detect_language => LanguageKeys \cap Keys(r) = {}

\* C10: detection failed with an exception that is not a recognized one.
C10_Witness ==
    /\ TextReturned
    /\ pc = "returned"
    /\ "detect_language" \in log.failed
    /\ "detected_language_error" \in Keys(text_ret)
    /\ text_ret["detected_language_error"] = <<"ValueError">>
    /\ "overall" \in Keys(text_ret)

\* main has left the dispatch of lines 305-322
Dispatched == op = "main" /\ pc \notin {"main_start", "main_dispatch"}

\* the safeguard of lines 325-328 was taken
SafeguardTaken ==
    \E j \in 1..Len(stderr) :
       stderr[j] = <<"CRITICAL", "Analysis did not produce results">>

\* C11 as stated: a run given exactly one of --text and --file, with any
\* string as its value, calls exactly one of analyze_text and analyze_file,
\* once, with that value and the flags, and never takes the safeguard of
\* `results is None`.
C11_OneAnalysisPerRun ==
    Dispatched =>
       /\ ~SafeguardTaken
       /\ args.text # PyNone =>
             /\ log.analyze_text = 1
             /\ log.analyze_file = 0
             /\ frame = TextFrame(args.text, PassedFlags)
       /\ args.file # PyNone =>
             /\ log.analyze_file = 1
             /\ file_frame = FileFrame(args.file, PassedFlags)
             /\ log.analyze_text = 0 \/ frame.text = log.read

\* what holds of the code: the same, but for the runs whose value is the
\* empty string, which call neither method and take the safeguard
C11_NonEmptyValue ==
    Dispatched =>
       IF Truthy(args.text) \/ Truthy(args.file)
       THEN C11_OneAnalysisPerRun
       ELSE /\ log.analyze_text = 0
            /\ log.analyze_file = 0
            /\ pc = "exited" => SafeguardTaken /\ exit_code = <<1>>

====
